---- MODULE Spec2Model ----
(***************************************************************************)
(* A model of JsonGenerator (src/src/index.js): the type coercer           *)
(* (_validateType), the schema validator (_validateSchema), the response   *)
(* sanitizer (_cleanJsonString), the retry loop of generate and the        *)
(* fan-out of generateBatch.                                               *)
(*                                                                         *)
(* JavaScript values are tagged records [t, v].  A string is its sequence  *)
(* of one-character strings, a number is the text String(n) gives for it,  *)
(* an array is the sequence of its elements and an object is the sequence  *)
(* of its <<key, value>> entries in insertion order.                       *)
(***************************************************************************)
EXTENDS Integers, Sequences, FiniteSets, TLC

\* LET x == val IN F(x), with val evaluated once.
With(val, F(_)) == F(val)

\* ------------------------------------------------------------------------
\* JavaScript values

Str(s) == [t |-> "string", v |-> s]
Num(s) == [t |-> "number", v |-> s]
Bool(b) == [t |-> "boolean", v |-> b]
Arr(a) == [t |-> "array", v |-> a]
Obj(entries) == [t |-> "object", v |-> entries]
Fn(name) == [t |-> "function", v |-> name]
Null == [t |-> "null", v |-> <<>>]
Undefined == [t |-> "undefined", v |-> <<>>]
\* NaN, the one number the model needs that has no digits.
NaN == [t |-> "number", v |-> <<"N", "a", "N">>]

\* typeof value
TypeOf(value) ==
  IF value.t \in {"array", "object", "null"} THEN "object" ELSE value.t

\* Array.isArray(value)
IsArray(value) == value.t = "array"

\* ------------------------------------------------------------------------
\* Strings (sequences of characters)

Digits == {"0", "1", "2", "3", "4", "5", "6", "7", "8", "9"}
WhiteSpace == {" ", "\n", "\t"}

DigitVal(c) ==
  CASE c = "0" -> 0 [] c = "1" -> 1 [] c = "2" -> 2 [] c = "3" -> 3
    [] c = "4" -> 4 [] c = "5" -> 5 [] c = "6" -> 6 [] c = "7" -> 7
    [] c = "8" -> 8 [] c = "9" -> 9

DigitChar(n) == <<"0", "1", "2", "3", "4", "5", "6", "7", "8", "9">>[n + 1]

\* The decimal text of a natural number.
RECURSIVE NatToStr(_)
NatToStr(n) == IF n < 10 THEN <<DigitChar(n)>>
               ELSE Append(NatToStr(n \div 10), DigitChar(n % 10))

\* s.startsWith(p)
StartsWith(s, p) == Len(s) >= Len(p) /\ SubSeq(s, 1, Len(p)) = p

\* s.slice(from) with a 0-based start: what follows the first `from` characters.
Drop(s, n) == SubSeq(s, n + 1, Len(s))

RECURSIVE TrimStart(_)
TrimStart(s) == IF s # <<>> /\ Head(s) \in WhiteSpace THEN TrimStart(Tail(s)) ELSE s

RECURSIVE TrimEnd(_)
TrimEnd(s) == IF s # <<>> /\ s[Len(s)] \in WhiteSpace
              THEN TrimEnd(SubSeq(s, 1, Len(s) - 1)) ELSE s

\* s.trim()
Trim(s) == TrimEnd(TrimStart(s))

LowerChar(c) ==
  CASE c = "A" -> "a" [] c = "B" -> "b" [] c = "E" -> "e" [] c = "F" -> "f"
    [] c = "G" -> "g" [] c = "I" -> "i" [] c = "L" -> "l" [] c = "M" -> "m"
    [] c = "N" -> "n" [] c = "O" -> "o" [] c = "R" -> "r" [] c = "S" -> "s"
    [] c = "T" -> "t" [] c = "U" -> "u" [] c = "Y" -> "y" [] OTHER -> c

\* s.toLowerCase()
ToLowerCase(s) == [i \in 1..Len(s) |-> LowerChar(s[i])]

\* The 1-based place of the first occurrence of p in s at or after `from`, 0 if none.
RECURSIVE IndexOf(_, _, _)
IndexOf(s, p, from) ==
  IF from + Len(p) - 1 > Len(s) THEN 0
  ELSE IF SubSeq(s, from, from + Len(p) - 1) = p THEN from
  ELSE IndexOf(s, p, from + 1)

\* s.split(sep), sep not empty
RECURSIVE Split(_, _)
Split(s, sep) ==
  With(IndexOf(s, sep, 1), LAMBDA i :
    IF i = 0 THEN <<s>>
    ELSE <<SubSeq(s, 1, i - 1)>> \o Split(Drop(s, i - 1 + Len(sep)), sep))

\* parts.join(sep)
RECURSIVE Join(_, _)
Join(parts, sep) ==
  IF parts = <<>> THEN <<>>
  ELSE IF Len(parts) = 1 THEN parts[1]
  ELSE parts[1] \o sep \o Join(Tail(parts), sep)

\* The longest prefix of s made of digits.
RECURSIVE DigitPrefix(_)
DigitPrefix(s) ==
  IF s # <<>> /\ Head(s) \in Digits THEN <<Head(s)>> \o DigitPrefix(Tail(s)) ELSE <<>>

RECURSIVE StripLeadingZeros(_)
StripLeadingZeros(d) ==
  IF Len(d) > 1 /\ Head(d) = "0" THEN StripLeadingZeros(Tail(d)) ELSE d

RECURSIVE StripTrailingZeros(_)
StripTrailingZeros(d) ==
  IF d # <<>> /\ d[Len(d)] = "0" THEN StripTrailingZeros(SubSeq(d, 1, Len(d) - 1)) ELSE d

\* ------------------------------------------------------------------------
\* Numbers and their text

\* 10^k applied to the decimal int.frac: the decimal point moved k places
\* (to the right for k > 0), as <<int digits, fraction digits>>.
RECURSIVE ShiftPoint(_, _, _)
ShiftPoint(int, frac, k) ==
  IF k = 0 THEN <<int, frac>>
  ELSE IF k > 0
       THEN IF frac = <<>> THEN ShiftPoint(Append(int, "0"), frac, k - 1)
            ELSE ShiftPoint(Append(int, Head(frac)), Tail(frac), k - 1)
       ELSE IF int = <<>> THEN ShiftPoint(int, <<"0">> \o frac, k + 1)
            ELSE ShiftPoint(SubSeq(int, 1, Len(int) - 1), <<int[Len(int)]>> \o frac, k + 1)

\* The exponent form d.ddde+n of the integer with significant digits m and
\* n + 1 digits in all.
ExponentText(m, n) ==
  <<Head(m)>> \o (IF Len(m) > 1 THEN <<".">> \o Tail(m) ELSE <<>>)
    \o <<"e", "+">> \o NatToStr(n)

\* Number::toString for the finite decimal (-1)^neg * int.frac, int without
\* leading and frac without trailing zeros: no sign on zero, and the exponent
\* form from 10^21 on.  Exact for the values of at most 15 significant digits
\* the model draws.
FormatNumber(neg, int, frac) ==
  IF int = <<"0">> /\ frac = <<>> THEN <<"0">>
  ELSE (IF neg THEN <<"-">> ELSE <<>>)
         \o (IF frac = <<>> /\ Len(int) > 21
             THEN ExponentText(StripTrailingZeros(int), Len(int) - 1)
             ELSE int \o (IF frac = <<>> THEN <<>> ELSE <<".">> \o frac))

NumberText(neg, int, frac) ==
  FormatNumber(neg, StripLeadingZeros(IF int = <<>> THEN <<"0">> ELSE int),
               StripTrailingZeros(frac))

RECURSIVE DigitsToNat(_)
DigitsToNat(d) == IF d = <<>> THEN 0
                  ELSE 10 * DigitsToNat(SubSeq(d, 1, Len(d) - 1)) + DigitVal(d[Len(d)])

\* The exponent part that starts c, as [k, len]: the power of ten and the
\* number of characters read (none when c starts with no exponent part).
ExponentPart(c) ==
  IF c = <<>> \/ Head(c) \notin {"e", "E"} THEN [k |-> 0, len |-> 0]
  ELSE With(IF Len(c) > 1 /\ c[2] \in {"-", "+"} THEN 1 ELSE 0, LAMBDA sign :
       With(DigitPrefix(Drop(c, 1 + sign)), LAMBDA digits :
         IF digits = <<>> THEN [k |-> 0, len |-> 0]
         ELSE [k |-> IF sign = 1 /\ c[2] = "-" THEN 0 - DigitsToNat(digits)
                     ELSE DigitsToNat(digits),
               len |-> 1 + sign + Len(digits)]))

\* The decimal literal that starts s: an optional sign, digits, an optional
\* fraction and an optional exponent part.  ok: there is a digit; int, frac:
\* the digits of the value; rawInt, rawFrac, dot: the digits and the point as
\* written; len: the number of characters read.
DecimalPrefix(s) ==
  With(IF s # <<>> /\ Head(s) \in {"-", "+"} THEN 1 ELSE 0, LAMBDA sign :
  With(DigitPrefix(Drop(s, sign)), LAMBDA int :
  With(Drop(s, sign + Len(int)), LAMBDA b :
  With(b # <<>> /\ Head(b) = ".", LAMBDA dot :
  With(IF dot THEN DigitPrefix(Tail(b)) ELSE <<>>, LAMBDA frac :
  With(ExponentPart(IF dot THEN Drop(b, 1 + Len(frac)) ELSE b), LAMBDA e :
  With(ShiftPoint(int, frac, e.k), LAMBDA moved :
    [ok |-> int # <<>> \/ frac # <<>>,
     neg |-> s # <<>> /\ Head(s) = "-",
     int |-> moved[1], frac |-> moved[2],
     rawInt |-> int, rawFrac |-> frac, dot |-> dot,
     len |-> sign + Len(int) + (IF dot THEN 1 + Len(frac) ELSE 0) + e.len])))))))

\* String(value)
RECURSIVE ToStr(_)
ToStr(value) ==
  CASE value.t = "string" -> value.v
    [] value.t = "number" -> value.v
    [] value.t = "boolean" -> IF value.v THEN <<"t", "r", "u", "e">>
                              ELSE <<"f", "a", "l", "s", "e">>
    [] value.t = "null" -> <<"n", "u", "l", "l">>
    [] value.t = "undefined" -> <<"u", "n", "d", "e", "f", "i", "n", "e", "d">>
    [] value.t = "array" ->
         Join([i \in 1..Len(value.v) |->
                 IF value.v[i].t \in {"null", "undefined"} THEN <<>>
                 ELSE ToStr(value.v[i])], <<",">>)
    [] value.t = "object" ->
         <<"[", "o", "b", "j", "e", "c", "t", " ", "O", "b", "j", "e", "c", "t", "]">>
    [] value.t = "function" ->
         <<"f", "u", "n", "c", "t", "i", "o", "n", " ">> \o value.v
           \o <<"(", ")", " ", "{", " ", "[", "n", "a", "t", "i", "v", "e", " ",
                "c", "o", "d", "e", "]", " ", "}">>

\* parseInt(value): the digits that start the trimmed text of value, after
\* an optional sign; NaN if there is none.
ParseInt(value) ==
  With(TrimStart(ToStr(value)), LAMBDA s :
  With(DigitPrefix(IF s # <<>> /\ Head(s) \in {"-", "+"} THEN Tail(s) ELSE s), LAMBDA z :
    IF z = <<>> THEN NaN ELSE Num(NumberText(s # <<>> /\ Head(s) = "-", z, <<>>))))

\* parseFloat(value): the decimal literal that starts the trimmed text of value.
ParseFloat(value) ==
  With(DecimalPrefix(TrimStart(ToStr(value))), LAMBDA p :
    IF ~p.ok THEN NaN ELSE Num(NumberText(p.neg, p.int, p.frac)))

\* isNaN(number)
IsNaN(number) == number = NaN

\* ------------------------------------------------------------------------
\* Errors and results

\* An Error object: its class and its message, a template with the texts
\* filled into its % places.  The empty message has the empty template.
Error(name, fmt, args) == [name |-> name, message |-> [fmt |-> fmt, args |-> args]]
NoError == Error("", "", <<>>)
EmptyMessage == [fmt |-> "", args |-> <<>>]

\* How an evaluation ends: normally with a value, or by throwing.
Ok(value) == [ok |-> TRUE, val |-> value, err |-> NoError]
Throw(error) == [ok |-> FALSE, val |-> Undefined, err |-> error]

\* ------------------------------------------------------------------------
\* JSON.parse and JSON.stringify

RECURSIVE SkipWs(_, _)
SkipWs(s, i) == IF i <= Len(s) /\ s[i] \in WhiteSpace THEN SkipWs(s, i + 1) ELSE i

\* obj[key] = value on a sequence of entries: a key met again keeps its place.
SetEntry(entries, key, value) ==
  IF \E i \in 1..Len(entries) : entries[i][1] = key
  THEN [i \in 1..Len(entries) |->
          IF entries[i][1] = key THEN <<key, value>> ELSE entries[i]]
  ELSE Append(entries, <<key, value>>)

Parsed(value, pos) == [ok |-> TRUE, val |-> value, pos |-> pos]
NoParse == [ok |-> FALSE, val |-> Undefined, pos |-> 0]

\* A JSON string that starts at s[i] = '"' (no escapes in the model's texts:
\* a backslash or a raw line break inside the quotes is a syntax error).
ParseStringAt(s, i) ==
  With(IndexOf(s, <<"\"">>, i + 1), LAMBDA j :
    IF j = 0 \/ \E k \in (i + 1)..(j - 1) : s[k] \in {"\\", "\n", "\t"}
    THEN NoParse
    ELSE Parsed(Str(SubSeq(s, i + 1, j - 1)), j + 1))

\* A JSON number that starts at s[i]: -? int frac? exp?, no leading zeros.
ParseNumberAt(s, i) ==
  With(DecimalPrefix(Drop(s, i - 1)), LAMBDA p :
    IF s[i] = "+" \/ p.rawInt = <<>> \/ (p.dot /\ p.rawFrac = <<>>)
       \/ (Len(p.rawInt) > 1 /\ Head(p.rawInt) = "0")
    THEN NoParse
    ELSE Parsed(Num(NumberText(p.neg, p.int, p.frac)), i + p.len))

\* The literal w at s[j], for value.
ParseWordAt(s, j, w, value) ==
  IF StartsWith(Drop(s, j - 1), w) THEN Parsed(value, j + Len(w)) ELSE NoParse

RECURSIVE ParseValue(_, _)
RECURSIVE ParseElements(_, _, _)
RECURSIVE ParseMembers(_, _, _)

\* The JSON value that starts at s[j], j <= Len(s).
ParseValueAt(s, j) ==
  CASE s[j] = "{" -> With(SkipWs(s, j + 1), LAMBDA k :
                       IF k <= Len(s) /\ s[k] = "}" THEN Parsed(Obj(<<>>), k + 1)
                       ELSE ParseMembers(s, k, <<>>))
    [] s[j] = "[" -> With(SkipWs(s, j + 1), LAMBDA k :
                       IF k <= Len(s) /\ s[k] = "]" THEN Parsed(Arr(<<>>), k + 1)
                       ELSE ParseElements(s, k, <<>>))
    [] s[j] = "\"" -> ParseStringAt(s, j)
    [] s[j] = "t" -> ParseWordAt(s, j, <<"t", "r", "u", "e">>, Bool(TRUE))
    [] s[j] = "f" -> ParseWordAt(s, j, <<"f", "a", "l", "s", "e">>, Bool(FALSE))
    [] s[j] = "n" -> ParseWordAt(s, j, <<"n", "u", "l", "l">>, Null)
    [] s[j] \in Digits \cup {"-"} -> ParseNumberAt(s, j)
    [] OTHER -> NoParse

\* The JSON value that starts at or after s[i], the white space around it skipped.
ParseValue(s, i) ==
  With(SkipWs(s, i), LAMBDA j :
    IF j > Len(s) THEN NoParse
    ELSE With(ParseValueAt(s, j), LAMBDA r :
           IF r.ok THEN Parsed(r.val, SkipWs(s, r.pos)) ELSE NoParse))

\* The elements of an array from s[i] on, after those of acc, up to its "]".
ParseElements(s, i, acc) ==
  With(ParseValue(s, i), LAMBDA e :
    IF ~e.ok \/ e.pos > Len(s) THEN NoParse
    ELSE IF s[e.pos] = "]" THEN Parsed(Arr(Append(acc, e.val)), e.pos + 1)
    ELSE IF s[e.pos] = "," THEN ParseElements(s, e.pos + 1, Append(acc, e.val))
    ELSE NoParse)

\* The member "key": value that starts at s[j], as the parse of the value
\* with the key in `key`.
ParseMemberAt(s, j) ==
  With(IF j <= Len(s) /\ s[j] = "\"" THEN ParseStringAt(s, j) ELSE NoParse, LAMBDA key :
  With(IF key.ok THEN SkipWs(s, key.pos) ELSE 0, LAMBDA c :
  With(IF key.ok /\ c <= Len(s) /\ s[c] = ":" THEN ParseValue(s, c + 1) ELSE NoParse,
       LAMBDA m : [ok |-> m.ok, val |-> m.val, pos |-> m.pos, key |-> key.val.v])))

\* The members of an object from s[i] on, after those of acc, up to its "}".
ParseMembers(s, i, acc) ==
  With(ParseMemberAt(s, SkipWs(s, i)), LAMBDA m :
    IF ~m.ok \/ m.pos > Len(s) THEN NoParse
    ELSE With(SetEntry(acc, m.key, m.val), LAMBDA entries :
           IF s[m.pos] = "}" THEN Parsed(Obj(entries), m.pos + 1)
           ELSE IF s[m.pos] = "," THEN ParseMembers(s, m.pos + 1, entries)
           ELSE NoParse))

\* The value of a text that is one JSON value, a SyntaxError otherwise.
ParseText(s) ==
  With(ParseValue(s, 1), LAMBDA r :
    IF r.ok /\ r.pos = Len(s) + 1 THEN Ok(r.val)
    ELSE Throw(Error("SyntaxError", "% is not valid JSON", <<s>>)))

\* JSON.parse(text); text is any value: it is converted to a string first.
JsonParse(text) == ParseText(ToStr(text))

\* JSON.stringify(value) without indentation.
RECURSIVE JsonStringify(_)
JsonStringify(value) ==
  CASE value.t = "string" -> <<"\"">> \o value.v \o <<"\"">>
    [] value.t = "array" ->
         <<"[">> \o Join([i \in 1..Len(value.v) |-> JsonStringify(value.v[i])], <<",">>)
                 \o <<"]">>
    [] value.t = "object" ->
         <<"{">> \o Join([i \in 1..Len(value.v) |->
                            <<"\"">> \o value.v[i][1] \o <<"\"", ":">>
                              \o JsonStringify(value.v[i][2])], <<",">>)
                 \o <<"}">>
    [] OTHER -> ToStr(value)

\* ------------------------------------------------------------------------
\* Type Coercer: _validateType

TypePrefix == <<"t", "y", "p", "e", ":">>
EnumPrefix == <<"e", "n", "u", "m", "[">>
\* The words of the annotations and of the boolean texts.
Word ==
  [string |-> <<"s", "t", "r", "i", "n", "g">>, str |-> <<"s", "t", "r">>,
   number |-> <<"n", "u", "m", "b", "e", "r">>, float |-> <<"f", "l", "o", "a", "t">>,
   integer |-> <<"i", "n", "t", "e", "g", "e", "r">>, int |-> <<"i", "n", "t">>,
   boolean |-> <<"b", "o", "o", "l", "e", "a", "n">>, bool |-> <<"b", "o", "o", "l">>,
   array |-> <<"a", "r", "r", "a", "y">>, list |-> <<"l", "i", "s", "t">>,
   true |-> <<"t", "r", "u", "e">>, false |-> <<"f", "a", "l", "s", "e">>]

\* type.split('type:')[1].trim()
TypeStr(type) == Trim(Split(type, TypePrefix)[2])

\* typeStr.slice(5, -1).split(',').map(v => v.trim())
EnumValues(typeStr) ==
  With(Split(SubSeq(typeStr, 6, Len(typeStr) - 1), <<",">>), LAMBDA parts :
    [i \in 1..Len(parts) |-> Trim(parts[i])])

\* An includes that compares without regard to case.
IncludesIgnoringCase(enumValues, value) ==
  value.t = "string"
    /\ \E i \in 1..Len(enumValues) : ToLowerCase(enumValues[i]) = ToLowerCase(value.v)

\* enumValues.includes(value)
Includes(enumValues, value) ==
  value.t = "string" /\ \E i \in 1..Len(enumValues) : enumValues[i] = value.v

\* _validateType(value, type, key)
ValidateType(value, type, key) ==
  IF ~StartsWith(type, TypePrefix) THEN Ok(value)
  ELSE
    With(TypeStr(type), LAMBDA typeStr :
    With(ToLowerCase(typeStr), LAMBDA kind :
      CASE kind \in {Word.string, Word.str} -> Ok(Str(ToStr(value)))
        [] kind \in {Word.number, Word.float} ->
             With(ParseFloat(value), LAMBDA num :
               IF IsNaN(num)
               THEN Throw(Error("Error", "Field \"%\" must be a number", <<key>>))
               ELSE Ok(num))
        [] kind \in {Word.integer, Word.int} ->
             With(ParseInt(value), LAMBDA int :
               IF IsNaN(int)
               THEN Throw(Error("Error", "Field \"%\" must be an integer", <<key>>))
               ELSE Ok(int))
        [] kind \in {Word.boolean, Word.bool} ->
             IF TypeOf(value) = "string" /\ ToLowerCase(value.v) = Word.true
             THEN Ok(Bool(TRUE))
             ELSE IF TypeOf(value) = "string" /\ ToLowerCase(value.v) = Word.false
             THEN Ok(Bool(FALSE))
             ELSE IF TypeOf(value) = "boolean" THEN Ok(value)
             ELSE Throw(Error("Error", "Field \"%\" must be a boolean", <<key>>))
        [] kind \in {Word.array, Word.list} ->
             IF ~IsArray(value)
             THEN With(JsonParse(value), LAMBDA parsed :
                    IF parsed.ok /\ IsArray(parsed.val) THEN Ok(parsed.val)
                    ELSE Throw(Error("Error", "Field \"%\" must be an array", <<key>>)))
             ELSE Ok(value)
        [] OTHER ->
             IF StartsWith(typeStr, EnumPrefix)
             THEN With(EnumValues(typeStr), LAMBDA enumValues :
                    IF ~Includes(enumValues, value)
                    THEN Throw(Error("Error", "Field \"%\" must be one of: %",
                                     <<key, Join(enumValues, <<",", " ">>)>>))
                    ELSE Ok(value))
             ELSE Ok(value)))

\* ------------------------------------------------------------------------
\* Schema Validator: _validateSchema

\* The property names the model's values use.
Key ==
  [name |-> <<"n", "a", "m", "e">>, age |-> <<"a", "g", "e">>,
   message |-> <<"m", "e", "s", "s", "a", "g", "e">>,
   choices |-> <<"c", "h", "o", "i", "c", "e", "s">>,
   content |-> <<"c", "o", "n", "t", "e", "n", "t">>,
   length |-> <<"l", "e", "n", "g", "t", "h">>,
   constructor |-> <<"c", "o", "n", "s", "t", "r", "u", "c", "t", "o", "r">>,
   a |-> <<"a">>, b |-> <<"b">>, x |-> <<"x">>]

\* Names every object inherits from Object.prototype (two of them).
ObjectPrototypeKeys ==
  {<<"c", "o", "n", "s", "t", "r", "u", "c", "t", "o", "r">>,
   <<"t", "o", "S", "t", "r", "i", "n", "g">>}

\* The own property names of an object or an array.
OwnKeys(data) ==
  IF IsArray(data)
  THEN {NatToStr(i - 1) : i \in 1..Len(data.v)} \cup {Key.length}
  ELSE {data.v[i][1] : i \in 1..Len(data.v)}

\* key in data, for data an object or an array: own and inherited names.
HasProperty(data, key) == key \in OwnKeys(data) \cup ObjectPrototypeKeys

\* data[key], for key in data.
GetProperty(data, key) ==
  IF key \notin OwnKeys(data) THEN Fn(key)
  ELSE IF IsArray(data)
       THEN IF key = Key.length THEN Num(NatToStr(Len(data.v)))
            ELSE data.v[CHOOSE i \in 1..Len(data.v) : NatToStr(i - 1) = key]
       ELSE data.v[CHOOSE i \in 1..Len(data.v) : data.v[i][1] = key][2]

\* The key _validateSchema hands to _validateType for every leaf.
LeafKey == <<"f", "i", "e", "l", "d">>

RECURSIVE ValidateSchema(_, _)
RECURSIVE ValidateItems(_, _, _)
RECURSIVE ValidateEntries(_, _, _)

\* _validateSchema(data, schema)
ValidateSchema(data, schema) ==
  IF TypeOf(schema) = "string" /\ StartsWith(schema.v, TypePrefix)
  THEN ValidateType(data, schema.v, LeafKey)
  ELSE IF TypeOf(schema) = "object" /\ schema # Null
  THEN IF IsArray(schema)
       THEN IF ~IsArray(data) THEN Throw(Error("Error", "Expected an array", <<>>))
            ELSE ValidateItems(data.v,
                               IF schema.v = <<>> THEN Undefined ELSE schema.v[1], <<>>)
       ELSE IF TypeOf(data) # "object" \/ data = Null
            THEN Throw(Error("Error", "Expected an object", <<>>))
            ELSE ValidateEntries(data, schema.v, <<>>)
  ELSE Ok(data)

\* data.map(item => this._validateSchema(item, schema[0])): the items in
\* order, after those already validated; the first that throws ends the map.
ValidateItems(items, itemSchema, done) ==
  IF items = <<>> THEN Ok(Arr(done))
  ELSE With(ValidateSchema(Head(items), itemSchema), LAMBDA r :
         IF r.ok THEN ValidateItems(Tail(items), itemSchema, Append(done, r.val)) ELSE r)

\* The loop over Object.entries(schema): the declared keys in order, after
\* those already copied to `validated`.
ValidateEntries(data, entries, validated) ==
  IF entries = <<>> THEN Ok(Obj(validated))
  ELSE With(Head(entries)[1], LAMBDA key :
         IF ~HasProperty(data, key)
         THEN Throw(Error("Error", "Missing required field: %", <<key>>))
         ELSE With(ValidateSchema(GetProperty(data, key), Head(entries)[2]), LAMBDA r :
                IF r.ok
                THEN ValidateEntries(data, Tail(entries), SetEntry(validated, key, r.val))
                ELSE r))

\* ------------------------------------------------------------------------
\* Response Sanitizer: _cleanJsonString

\* The backtick character.
Backtick == "BACKTICK"
Fence == <<Backtick, Backtick, Backtick>>
JsonTag == <<"j", "s", "o", "n">>

\* str.replace(/```(?:json)?\n?/g, ''): every fence opener, with the language
\* tag and the line break that may follow it, left to right.
RECURSIVE RemoveFences(_)
RemoveFences(str) ==
  IF str = <<>> THEN <<>>
  ELSE IF StartsWith(str, Fence)
       THEN With(Drop(str, 3), LAMBDA a :
            With(IF StartsWith(a, JsonTag) THEN Drop(a, 4) ELSE a, LAMBDA b :
              RemoveFences(IF b # <<>> /\ Head(b) = "\n" THEN Tail(b) ELSE b)))
       ELSE <<Head(str)>> \o RemoveFences(Tail(str))

\* str.replace(/`+$/, ''): the backticks that end the text.
RECURSIVE RemoveTrailingBackticks(_)
RemoveTrailingBackticks(str) ==
  IF str # <<>> /\ str[Len(str)] = Backtick
  THEN RemoveTrailingBackticks(SubSeq(str, 1, Len(str) - 1)) ELSE str

\* _cleanJsonString(str)
CleanJsonString(str) == Trim(RemoveTrailingBackticks(RemoveFences(str)))

\* ------------------------------------------------------------------------
\* Bounds and the values the model draws its inputs from

\* The largest maxRetries a configuration names (the default is 3).
MaxRetriesArg == 2
\* The longest array generateBatch is given.
MaxBatch == 2
\* The most pieces a text given to the sanitizer is made of.
MaxParts == 4

\* An optional field of a configuration or a request.
Some(x) == [given |-> TRUE, value |-> x]
\* Absent fields carry a blank of the field's type.
Absent(blank) == [given |-> FALSE, value |-> blank]
NoText == Absent(<<>>)

John == <<"J", "o", "h", "n">>

Annotation(kind) == Str(TypePrefix \o kind)

\* { name: 'type:string', age: 'type:integer' }
PersonSchema == Obj(<< <<Key.name, Annotation(Word.string)>>, <<Key.age, Annotation(Word.integer)>> >>)
EmptySchema == Obj(<<>>)

\* Texts a model may answer with.
GoodText == JsonStringify(Obj(<< <<Key.name, Str(John)>>, <<Key.age, Str(<<"3", "0">>)>> >>))
FencedText == Fence \o JsonTag \o <<"\n">> \o GoodText \o <<"\n">> \o Fence
MinorText == JsonStringify(Obj(<< <<Key.name, Str(John)>>, <<Key.age, Num(<<"1", "5">>)>> >>))
MissingText == JsonStringify(Obj(<< <<Key.name, Str(John)>> >>))
BadLeafText == JsonStringify(Obj(<< <<Key.name, Str(John)>>, <<Key.age, Str(<<"a", "b", "c">>)>> >>))
ProseText == <<"S", "u", "r", "e", "!">>


\* What fetch settles with: a rejection, or a Response with its ok flag, its
\* status text and what response.json() settles with.
FetchRejects(error) ==
  [rejects |-> TRUE, error |-> error, ok |-> FALSE, statusText |-> <<>>, body |-> Ok(Undefined)]
Response(ok, statusText, body) ==
  [rejects |-> FALSE, error |-> NoError, ok |-> ok, statusText |-> statusText, body |-> body]

\* A completion whose choices[0].message.content is text.
Completion(text) ==
  Response(TRUE, <<"O", "K">>,
           Ok(Obj(<< <<Key.choices,
                       Arr(<< Obj(<< <<Key.message,
                                       Obj(<< <<Key.content, Str(text)>> >>)>> >>) >>)>> >>)))

\* 429 with a JSON body that has a message.
RateLimited ==
  Response(FALSE, <<"4", "2", "9">>,
           Ok(Obj(<< <<Key.message, Str(<<"s", "l", "o", "w">>)>> >>)))

\* The answers to a direct generate call: a network failure, 429, 503 with a
\* body without message, 502 with a body that is no JSON, a completion
\* without choices, and completions with each of the texts.  The members of a
\* batch get fewer.
Responses ==
  {FetchRejects(Error("TypeError", "fetch failed", <<>>)),
   RateLimited,
   Response(FALSE, <<"5", "0", "3">>, Ok(Obj(<<>>))),
   Response(FALSE, <<"5", "0", "2">>,
            Throw(Error("SyntaxError", "% is not valid JSON", << <<"<">> >>))),
   Response(TRUE, <<"O", "K">>, Ok(Obj(<<>>)))}
    \cup {Completion(text) :
            text \in {GoodText, FencedText, MinorText, MissingText, BadLeafText, ProseText}}
BatchResponses == {RateLimited, Completion(GoodText), Completion(MinorText)}

\* Custom validators, as in examples/basic.js: each maps the validated
\* object to {valid, error}.  "adult" and "quiet" reject an age under 18,
\* "quiet" without an error text; "named" rejects an empty name.
AtLeast18(number) ==
  /\ number.t = "number"
  /\ number.v # <<>>
  /\ \A i \in 1..Len(number.v) : number.v[i] \in Digits
  /\ DigitsToNat(number.v) >= 18

ValidatorVerdict(validator, result) ==
  CASE validator = "adult" ->
         [valid |-> AtLeast18(GetProperty(result, Key.age)),
          error |-> [fmt |-> "User must be 18 or older", args |-> <<>>]]
    [] validator = "quiet" ->
         [valid |-> AtLeast18(GetProperty(result, Key.age)), error |-> EmptyMessage]
    [] validator = "named" ->
         [valid |-> GetProperty(result, Key.name) # Str(<<>>),
          error |-> [fmt |-> "Name is required", args |-> <<>>]]

CustomPrompt == <<"J", "S", "O", "N", " ", "o", "n", "l", "y">>

Request(schema, systemPrompt, customValidators) ==
  [schema |-> schema, systemPrompt |-> systemPrompt, customValidators |-> customValidators]
NoRequest == Request(EmptySchema, NoText, <<>>)

Requests ==
  {Request(PersonSchema, sp, cv) :
     sp \in {NoText, Some(CustomPrompt)},
     cv \in {<<>>, <<"named", "adult">>, <<"quiet">>}}
    \cup {Request(EmptySchema, NoText, <<>>)}
BatchRequests ==
  {Request(PersonSchema, NoText, <<>>), Request(PersonSchema, NoText, <<"adult">>),
   Request(EmptySchema, NoText, <<>>)}

\* ------------------------------------------------------------------------
\* State

VARIABLES
  generator,  \* the JsonGenerator under construction or built, and how `new` ended
  call,       \* per generate invocation: its position, locals and outcome
  net,        \* per generate invocation: the model requests it has issued
  batch,      \* the promise generateBatch returned
  val,        \* the validator applied on its own: an input and its outcomes
  san,        \* the sanitizer applied on its own: a text and its outcomes
  co          \* the coercer applied on its own: an input and its outcome

vars == <<generator, call, net, batch, val, san, co>>

Calls == 1..MaxBatch

\* ------------------------------------------------------------------------
\* constructor

DefaultModel == "mistralai/mistral-nemo"
DefaultMaxRetries == 3
DefaultDelimiter == <<"#", "#", "#">>

Config(apiKey, model, maxRetries, delimiter) ==
  [apiKey |-> apiKey, model |-> model, maxRetries |-> maxRetries, delimiter |-> delimiter]

Configs ==
  {Config(a, Absent(""), m, NoText) :
     a \in {Absent(""), Some(""), Some("test-key")},
     m \in {Absent(0)} \cup {Some(k) : k \in (0 - 1)..MaxRetriesArg}}
    \cup {Config(Some("test-key"), Some("custom-model"), Absent(0), Some(<<"@">>))}

\* A parameter's default: used when the field is absent (undefined).
OrDefault(field, default) == IF field.given THEN field.value ELSE default

NoGenerator ==
  [state |-> "none", apiKey |-> "", model |-> "", maxRetries |-> 0, delimiter |-> <<>>,
   error |-> NoError]

\* A constructor that does not look at apiKey.
ConstructorUnchecked(config) ==
  /\ generator.state = "none"
  /\ generator' = [state |-> "built",
                   apiKey |-> config.apiKey.value,
                   model |-> OrDefault(config.model, DefaultModel),
                   maxRetries |-> OrDefault(config.maxRetries, DefaultMaxRetries),
                   delimiter |-> OrDefault(config.delimiter, DefaultDelimiter),
                   error |-> NoError]
  /\ UNCHANGED <<call, net, batch, val, san, co>>

\* new JsonGenerator(config)
Constructor(config) ==
  /\ generator.state = "none"
  /\ generator' =
       IF ~config.apiKey.given \/ config.apiKey.value = ""
       THEN [generator EXCEPT !.state = "threw",
                              !.error = Error("Error", "OpenRouter API key is required", <<>>)]
       ELSE [state |-> "built",
             apiKey |-> config.apiKey.value,
             model |-> OrDefault(config.model, DefaultModel),
             maxRetries |-> OrDefault(config.maxRetries, DefaultMaxRetries),
             delimiter |-> OrDefault(config.delimiter, DefaultDelimiter),
             error |-> NoError]
  /\ UNCHANGED <<call, net, batch, val, san, co>>

\* ------------------------------------------------------------------------
\* Schema Formatter: _wrapFormat and _createStructuredPrompt

\* s.repeat(n)
RECURSIVE Repeat(_, _)
Repeat(s, n) == IF n = 0 THEN <<>> ELSE s \o Repeat(s, n - 1)

\* _wrapFormat(format, level), with this.delimiter
RECURSIVE WrapFormat(_, _, _)
WrapFormat(format, level, delimiter) ==
  IF format.t = "array"
  THEN Arr([i \in 1..Len(format.v) |-> WrapFormat(format.v[i], level + 1, delimiter)])
  ELSE IF format.t = "object"
  THEN Obj([i \in 1..Len(format.v) |->
              <<Repeat(delimiter, level) \o format.v[i][1] \o Repeat(delimiter, level),
                WrapFormat(format.v[i][2], level + 1, delimiter)>>])
  ELSE Str(<<"<">> \o ToStr(format) \o <<">">>)

\* _formatValue(value)
RECURSIVE FormatValue(_)
FormatValue(value) ==
  IF value.t = "string" THEN <<"\"">> \o value.v \o <<"\"">>
  ELSE IF value.t = "array"
  THEN <<"[">> \o Join([i \in 1..Len(value.v) |-> FormatValue(value.v[i])], <<",", " ">>)
               \o <<"]">>
  ELSE ToStr(value)

\* formatField(key, type, path) of _createStructuredPrompt, with the default
\* example; the kinds looked up in example are its own keys or no key of it.
RECURSIVE FormatField(_, _, _)
FormatField(key, type, path) ==
  With(IF path # <<>> THEN path \o <<".">> \o key ELSE key, LAMBDA currentPath :
  With(Obj(<< <<Word.string, Str(<<"e", "x", "a", "m", "p", "l", "e", "_", "t", "e", "x", "t">>)>>,
              <<Word.integer, Num(<<"4", "2">>)>>,
              <<Word.float, Num(<<"4", "2", ".", "5">>)>>,
              <<Word.boolean, Bool(TRUE)>>,
              <<Word.array, Arr(<<Str(<<"i", "t", "e", "m", "1">>),
                                  Str(<<"i", "t", "e", "m", "2">>)>>)>> >>), LAMBDA example :
    IF type.t = "string" /\ StartsWith(type.v, TypePrefix)
    THEN With(TypeStr(type.v), LAMBDA baseType :
           IF StartsWith(baseType, EnumPrefix)
           THEN currentPath \o <<"=">> \o FormatValue(Str(EnumValues(baseType)[1]))
           ELSE currentPath \o <<"=">>
                  \o FormatValue(IF ToLowerCase(baseType) \in OwnKeys(example)
                                 THEN GetProperty(example, ToLowerCase(baseType))
                                 ELSE GetProperty(example, Word.string)))
    ELSE IF type.t = "object"
    THEN Join([i \in 1..Len(type.v) |-> FormatField(type.v[i][1], type.v[i][2], currentPath)],
              <<",", " ">>)
    ELSE currentPath \o <<"=">> \o FormatValue(GetProperty(example, Word.array))))

\* _createStructuredPrompt(userPrompt, schema): the user message, with the
\* field examples it ends with; the user's prompt is any text.
CreateStructuredPrompt(schema) ==
  [fmt |-> "%\nReturn a raw JSON object (no markdown, no code blocks) with exactly these fields and values as a template: %",
   args |-> <<"prompt",
              Join([i \in 1..Len(schema.v) |-> FormatField(schema.v[i][1], schema.v[i][2], <<>>)],
                   <<",", " ">>)>>]

\* ------------------------------------------------------------------------
\* generate: the pieces of one attempt

\* lastError: null, or the message of the error caught last.
NullError == [isNull |-> TRUE, text |-> EmptyMessage]
ErrorText(message) == [isNull |-> FALSE, text |-> message]

\* A string in a condition: true unless it is empty.
Truthy(text) == text # <<>>

\* systemPrompt || baseSystemPrompt; the base prompt quotes JSON.stringify(schema).
FinalSystemPrompt(request) ==
  IF request.systemPrompt.given /\ Truthy(request.systemPrompt.value)
  THEN [custom |-> TRUE, text |-> request.systemPrompt.value]
  ELSE [custom |-> FALSE, text |-> JsonStringify(request.schema)]

\* finalSystemPrompt + (lastError ? `\nPrevious error: ${lastError}` : '')
SystemContent(finalSystemPrompt, lastError) ==
  [prompt |-> finalSystemPrompt,
   previousError |-> IF ~lastError.isNull /\ lastError.text # EmptyMessage
                     THEN Some(lastError.text) ELSE Absent(EmptyMessage)]

\* attempt < this.maxRetries
LoopContinues(attempt, maxRetries) == attempt < maxRetries

\* The last-attempt test one too early (attempt === this.maxRetries - 2).
IsLastAttemptOneEarly(attempt, maxRetries) == attempt = maxRetries - 2

\* attempt === this.maxRetries - 1
IsLastAttempt(attempt, maxRetries) == attempt = maxRetries - 1

\* lastError = error.message
CaughtMessage(error) == ErrorText(error.message)

\* value[key] where a missing property reads undefined and reading a property
\* of undefined or null throws.
Read(value, key) ==
  IF ~value.ok THEN value
  ELSE IF value.val.t \in {"undefined", "null"}
  THEN Throw(Error("TypeError", "Cannot read properties of % (reading '%')",
                   <<ToStr(value.val), key>>))
  ELSE IF value.val.t \in {"object", "array"} /\ key \in OwnKeys(value.val)
  THEN Ok(GetProperty(value.val, key))
  ELSE Ok(Undefined)

\* data.choices[0].message.content
Content(data) ==
  Read(Read(Read(Read(Ok(data), Key.choices), <<"0">>), Key.message), Key.content)

\* How a step of an attempt ends: as Ok or Throw, with the step it ended in.
Outcome(step, r) == [ok |-> r.ok, val |-> r.val, err |-> r.err, step |-> step]

\* A value in a condition.
JsTruthy(value) ==
  CASE value.t \in {"undefined", "null"} -> FALSE
    [] value.t = "string" -> Truthy(value.v)
    [] value.t = "number" -> value # NaN /\ value.v # <<"0">>
    [] value.t = "boolean" -> value.v
    [] OTHER -> TRUE

\* error.message || response.statusText
ProviderMessage(message, statusText) ==
  IF JsTruthy(message) THEN ToStr(message) ELSE statusText

\* _cleanJsonString(content), where a content that is no string has no replace.
Cleaned(content) ==
  IF content.t = "string" THEN Ok(Str(CleanJsonString(content.v)))
  ELSE Throw(Error("TypeError", "str.replace is not a function", <<>>))

\* if (!response.ok) { const error = await response.json(); throw new Error(...) }
ProviderError(response) ==
  With(Read(response.body, Key.message), LAMBDA message :
    IF ~message.ok THEN message
    ELSE Throw(Error("Error", "OpenRouter API error: %",
                     <<ProviderMessage(message.val, response.statusText)>>)))

\* JSON.parse(cleanedJson) alone: what was parsed goes on as the result.
ParseWithoutValidation(cleanedJson, schema) ==
  With(JsonParse(cleanedJson), LAMBDA result :
    IF ~result.ok THEN Outcome("parse", result) ELSE Outcome("validate", result))

\* JSON.parse(cleanedJson) and this._validateSchema(result, schema)
ParseAndValidate(cleanedJson, schema) ==
  With(JsonParse(cleanedJson), LAMBDA result :
    IF ~result.ok THEN Outcome("parse", result)
    ELSE Outcome("validate", ValidateSchema(result.val, schema)))

\* From the content of the completion to the validated result.
ProcessContent(content, schema) ==
  IF ~content.ok THEN Outcome("content", content)
  ELSE With(Cleaned(content.val), LAMBDA cleanedJson :
         IF ~cleanedJson.ok THEN Outcome("content", cleanedJson)
         ELSE ParseAndValidate(cleanedJson.val, schema))

\* From the response of fetch to the validated result.
ProcessResponse(response, schema) ==
  IF ~response.body.ok THEN Outcome("body", response.body)
  ELSE IF ~response.ok THEN Outcome("provider", ProviderError(response))
  ELSE ProcessContent(Content(response.body.val), schema)

\* A validator whose verdict is not looked at.
RunValidatorUnchecked(validator, result) == Outcome("custom", Ok(result))

\* const { valid, error } = await validator(result); if (!valid) throw new Error(error)
RunValidator(validator, result) ==
  With(ValidatorVerdict(validator, result), LAMBDA verdict :
    IF ~verdict.valid
    THEN Outcome("custom", Throw(Error("Error", verdict.error.fmt, verdict.error.args)))
    ELSE Outcome("custom", Ok(result)))

\* ------------------------------------------------------------------------
\* generate: the retry loop

NoResponse == Response(FALSE, <<>>, Ok(Undefined))
NoContent == SystemContent([custom |-> FALSE, text |-> <<>>], NullError)

\* A generate invocation that has not been made.  history records, for the
\* properties, the attempts that have failed, in order: the error each was
\* caught with and the step it was thrown in.
IdleCall ==
  [pc |-> "idle", request |-> NoRequest, attempt |-> 0, lastError |-> NullError,
   response |-> NoResponse, result |-> Undefined, validator |-> 0, raised |-> NoError,
   history |-> <<>>]
IdleNet == [sent |-> 0, inflight |-> 0, system |-> NoContent, user |-> EmptyMessage]

\* fetch(...): one more request to the model, with the system message of this
\* attempt and the structured prompt as the user message.
Send(nr, cr) ==
  [sent |-> nr.sent + 1, inflight |-> nr.inflight + 1,
   system |-> SystemContent(FinalSystemPrompt(cr.request), cr.lastError),
   user |-> CreateStructuredPrompt(cr.request.schema)]

\* The head of the for loop: the next attempt's fetch, or the end of the
\* function when the loop is over (generate then returns undefined).
EnterAttempt(cr, nr, maxRetries) ==
  IF LoopContinues(cr.attempt, maxRetries)
  THEN <<[cr EXCEPT !.pc = "fetch"], Send(nr, cr)>>
  ELSE <<[cr EXCEPT !.pc = "returned", !.result = Undefined], nr>>

\* The schema-less branch: this._makeRequest is no method of the class, so the
\* call of it throws before any request is made.
SchemaLess(request) ==
  <<[IdleCall EXCEPT !.request = request, !.pc = "thrown",
                     !.raised = Error("TypeError", "this._makeRequest is not a function", <<>>)],
    IdleNet>>

\* generate(request) up to its first await.
Begin(request, maxRetries) ==
  IF Len(request.schema.v) = 0 THEN SchemaLess(request)
  ELSE EnterAttempt([IdleCall EXCEPT !.request = request], IdleNet, maxRetries)

\* A catch block that records an error only while lastError is null
\* (lastError = lastError || error.message).
CatchKeepsFirstError(cr, nr, maxRetries, out) ==
  With([cr EXCEPT !.lastError = IF @.isNull THEN ErrorText(out.err.message) ELSE @,
                  !.response = NoResponse, !.result = Undefined, !.validator = 0,
                  !.history = Append(@, [error |-> out.err, step |-> out.step])],
       LAMBDA caught :
         IF IsLastAttempt(cr.attempt, maxRetries)
         THEN <<[caught EXCEPT !.pc = "thrown", !.raised = out.err], nr>>
         ELSE EnterAttempt([caught EXCEPT !.attempt = @ + 1], nr, maxRetries))

\* The catch block, and what follows it: the throw on the last attempt,
\* otherwise attempt++ and the head of the loop.
Catch(cr, nr, maxRetries, out) ==
  With([cr EXCEPT !.lastError = CaughtMessage(out.err),
                  !.response = NoResponse, !.result = Undefined, !.validator = 0,
                  !.history = Append(@, [error |-> out.err, step |-> out.step])],
       LAMBDA caught :
         IF IsLastAttempt(cr.attempt, maxRetries)
         THEN <<[caught EXCEPT !.pc = "thrown", !.raised = out.err], nr>>
         ELSE EnterAttempt([caught EXCEPT !.attempt = @ + 1], nr, maxRetries))

\* What follows the settling of fetch: the catch block for a rejection, the
\* reading of the body for a Response.
AfterFetch(cr, nr, maxRetries, response) ==
  IF response.rejects
  THEN Catch(cr, nr, maxRetries, Outcome("fetch", Throw(response.error)))
  ELSE <<[cr EXCEPT !.pc = "body", !.response = response], nr>>

\* After _validateSchema: the first custom validator, or return result.
AfterValidation(cr, validated) ==
  IF cr.request.customValidators = <<>>
  THEN [cr EXCEPT !.pc = "returned", !.result = validated]
  ELSE [cr EXCEPT !.pc = "validator", !.result = validated, !.validator = 1]

\* After a validator found the result valid: the next one, or return result.
AfterValidator(cr) ==
  IF cr.validator < Len(cr.request.customValidators)
  THEN [cr EXCEPT !.validator = @ + 1]
  ELSE [cr EXCEPT !.pc = "returned"]

\* ------------------------------------------------------------------------
\* generateBatch: Promise.all over the members' promises

NoBatch == [state |-> "none", n |-> 0, order |-> <<>>, values |-> <<>>, error |-> NoError]

\* An array filled in the order the promises settled in.
BatchValuesInCompletionOrder(calls, order, n) == [i \in 1..n |-> calls[order[i]].result]

\* The array Promise.all resolves with: element i is the value of promise i.
BatchValues(calls, order, n) == [i \in 1..n |-> calls[i].result]

\* Promise.allSettled's reaction: a rejection counts as a settled member.
SettleAllSettled(b, calls, c) ==
  IF b.state # "pending" \/ calls[c].pc \notin {"thrown", "returned"} THEN b
  ELSE With(Append(b.order, c), LAMBDA order :
         IF Len(order) = b.n
         THEN [b EXCEPT !.state = "resolved", !.order = order,
                        !.values = [i \in 1..b.n |-> calls[i].result]]
         ELSE [b EXCEPT !.order = order])

\* Promise.all's reaction to member c settling.
Settle(b, calls, c) ==
  IF b.state # "pending" THEN b
  ELSE IF calls[c].pc = "thrown"
  THEN [b EXCEPT !.state = "rejected", !.error = calls[c].raised]
  ELSE IF calls[c].pc = "returned"
  THEN With(Append(b.order, c), LAMBDA order :
         IF Len(order) = b.n
         THEN [b EXCEPT !.state = "resolved", !.order = order,
                        !.values = BatchValues(calls, order, b.n)]
         ELSE [b EXCEPT !.order = order])
  ELSE b

\* The reactions to the members that are settled when Promise.all is called,
\* in the order of the array.
RECURSIVE SettleFrom(_, _, _)
SettleFrom(b, calls, c) ==
  IF c > b.n THEN b ELSE SettleFrom(Settle(b, calls, c), calls, c + 1)

\* Promise.all(promises) for n promises.
PromiseAll(calls, n) ==
  IF n = 0 THEN [NoBatch EXCEPT !.state = "resolved"]
  ELSE SettleFrom([NoBatch EXCEPT !.state = "pending", !.n = n], calls, 1)

\* ------------------------------------------------------------------------
\* Actions

\* Retry state kept on the generator (this.attempt, this.lastError): what call
\* c writes, every call in flight reads.
ContinueSharedRetryState(c, next) ==
  /\ call' = [d \in Calls |->
                IF d = c THEN next[1]
                ELSE IF call[d].pc \in {"fetch", "body", "validator"}
                     THEN [call[d] EXCEPT !.attempt = next[1].attempt,
                                          !.lastError = next[1].lastError]
                     ELSE call[d]]
  /\ net' = [net EXCEPT ![c] = next[2]]
  /\ batch' = Settle(batch, [call EXCEPT ![c] = next[1]], c)
  /\ UNCHANGED <<generator, val, san, co>>

\* Call c runs on to its next await, or settles: next is its record and its
\* requests then, and Promise.all reacts if c has settled.
Continue(c, next) ==
  /\ call' = [call EXCEPT ![c] = next[1]]
  /\ net' = [net EXCEPT ![c] = next[2]]
  /\ batch' = Settle(batch, [call EXCEPT ![c] = next[1]], c)
  /\ UNCHANGED <<generator, val, san, co>>

\* await generator.generate(request), called on its own.
Generate(request) ==
  /\ generator.state = "built"
  /\ batch.state = "none"
  /\ call[1].pc = "idle"
  /\ Continue(1, Begin(request, generator.maxRetries))

\* prompts.map(p => this.generate(p)): every member up to its first await,
\* in the order of the array.
MapGenerate(prompts, maxRetries) ==
  [c \in Calls |-> IF c <= Len(prompts) THEN Begin(prompts[c], maxRetries)
                   ELSE <<IdleCall, IdleNet>>]

\* Promise.all takes the promises of the n members begun.
AwaitAll(begun, n) ==
  /\ call' = [c \in Calls |-> begun[c][1]]
  /\ net' = [c \in Calls |-> begun[c][2]]
  /\ batch' = PromiseAll([c \in Calls |-> begun[c][1]], n)
  /\ UNCHANGED <<generator, val, san, co>>

\* generator.generateBatch(prompts)
GenerateBatch(prompts) ==
  /\ generator.state = "built"
  /\ batch.state = "none"
  /\ \A c \in Calls : call[c].pc = "idle"
  /\ AwaitAll(MapGenerate(prompts, generator.maxRetries), Len(prompts))

\* A fetch that is not awaited: the attempt goes on while its request is
\* still in flight.
FetchSettlesUnawaited(c, response) ==
  /\ call[c].pc = "fetch"
  /\ Continue(c, AfterFetch(call[c], net[c], generator.maxRetries, response))

\* The fetch of call c settles: with a Response, whose body is read next, or
\* with a rejection, which the catch block takes.
FetchSettles(c, response) ==
  /\ call[c].pc = "fetch"
  /\ Continue(c, AfterFetch(call[c], [net[c] EXCEPT !.inflight = @ - 1],
                            generator.maxRetries, response))

\* An attempt whose success does not leave the loop (result kept, no return):
\* the loop runs its remaining attempts and the function ends without a value.
AfterStepKeepsLooping(cr, nr, maxRetries, out, onward) ==
  IF ~out.ok THEN Catch(cr, nr, maxRetries, out)
  ELSE IF onward.pc # "returned" THEN <<onward, nr>>
  ELSE EnterAttempt([cr EXCEPT !.attempt = @ + 1, !.response = NoResponse,
                               !.result = Undefined, !.validator = 0], nr, maxRetries)

\* A catch that lets a schema validation error through at once.
AfterStepRethrowsValidation(cr, nr, maxRetries, out, onward) ==
  IF out.ok THEN <<onward, nr>>
  ELSE IF out.step = "validate"
  THEN <<[cr EXCEPT !.pc = "thrown", !.raised = out.err, !.lastError = ErrorText(out.err.message),
                    !.history = Append(@, [error |-> out.err, step |-> out.step])], nr>>
  ELSE Catch(cr, nr, maxRetries, out)

\* What follows an awaited step that ended with out: the rest of the
\* attempt by onward, or the catch block.
AfterStep(cr, nr, maxRetries, out, onward) ==
  IF out.ok THEN <<onward, nr>> ELSE Catch(cr, nr, maxRetries, out)

\* response.json() of call c settles, and the attempt runs on to its next
\* await: the status check, the sanitizer, JSON.parse, _validateSchema and
\* the call of the first custom validator.
BodySettles(c) ==
  /\ call[c].pc = "body"
  /\ Continue(c, With(ProcessResponse(call[c].response, call[c].request.schema),
                      LAMBDA out : AfterStep(call[c], net[c], generator.maxRetries, out,
                                             AfterValidation(call[c], out.val))))

\* The custom validator call c awaits settles.
ValidatorSettles(c) ==
  /\ call[c].pc = "validator"
  /\ Continue(c, With(RunValidator(call[c].request.customValidators[call[c].validator],
                                   call[c].result),
                      LAMBDA out : AfterStep(call[c], net[c], generator.maxRetries, out,
                                             AfterValidator(call[c]))))

\* ------------------------------------------------------------------------
\* The validator on its own


\* Leaf values of a parsed answer.
Leaves ==
  {Str(<<"7">>), Str(<<"a", "b", "c">>), Num(<<"1", ".", "5">>),
   Str(<<"1", "0", "0", "0", "0", "0", "0", "0", "0", "0", "0",
         "0", "0", "0", "0", "0", "0", "0", "0", "0", "0", "0">>)}

\* The entry of key k, or none for undefined: JSON has no undefined, and the
\* key is then absent.
Entry(k, v) == IF v = Undefined THEN <<>> ELSE << <<k, v>> >>

\* The objects with some of the keys a, b and x, each with a leaf value.
FlatData ==
  {Obj(Entry(Key.a, a) \o Entry(Key.b, b) \o Entry(Key.x, x)) :
     a \in Leaves \cup {Undefined}, b \in Leaves \cup {Undefined},
     x \in Leaves \cup {Undefined}}

\* Values that are no flat object of leaves, and objects holding one as a.
OddData ==
  {Null, Str(<<"7">>), Arr(<<>>), Arr(<<Str(<<"7">>), Num(<<"1", ".", "5">>)>>),
   Arr(<<Str(<<"7">>), Str(<<"a", "b", "c">>)>>),
   Obj(<< <<Key.b, Str(<<"7">>)>> >>), Obj(<< <<Key.b, Str(<<"a", "b", "c">>)>>, <<Key.x, Null>> >>)}
NestedData == OddData \cup {Obj(<< <<Key.a, v>> >>) : v \in OddData}

\* The schemas validated against: flat, nested, a list of leaves, one that
\* declares a name every object inherits, and one in the style of
\* test/generator.test.js, whose annotations do not start with "type:".
FlatSchema == Obj(<< <<Key.a, Annotation(Word.integer)>>, <<Key.b, Annotation(Word.string)>> >>)
NestedSchema == Obj(<< <<Key.a, Obj(<< <<Key.b, Annotation(Word.number)>> >>)>> >>)
ListSchema == Obj(<< <<Key.a, Arr(<<Annotation(Word.integer)>>)>> >>)
InheritedSchema == Obj(<< <<Key.constructor, Annotation(Word.string)>> >>)
PlainSchema == Obj(<< <<Key.a, Str(Word.string)>>, <<Key.b, Str(Word.number)>> >>)
Schemas == {FlatSchema, NestedSchema, ListSchema, InheritedSchema, PlainSchema}

IdleVal ==
  [phase |-> "idle", data |-> Undefined, schema |-> Undefined, out |-> Ok(Undefined),
   again |-> Ok(Undefined)]
ValInput(data, schema) == [IdleVal EXCEPT !.phase = "input", !.data = data, !.schema = schema]

\* this._validateSchema(data, schema)
Validate ==
  /\ val.phase = "input"
  /\ val' = [val EXCEPT !.phase = "done", !.out = ValidateSchema(val.data, val.schema)]
  /\ UNCHANGED <<generator, call, net, batch, san, co>>

\* this._validateSchema(result, schema) for the result of a validation that
\* returned.
Revalidate ==
  /\ val.phase = "done"
  /\ val.out.ok
  /\ val' = [val EXCEPT !.phase = "again", !.again = ValidateSchema(val.out.val, val.schema)]
  /\ UNCHANGED <<generator, call, net, batch, san, co>>

\* The sanitizer and the coercer before they are applied.

\* this._cleanJsonString(str), and then this._cleanJsonString of what it
\* returned.
Sanitize ==
  /\ san.phase \in {"input", "done"}
  /\ san' = IF san.phase = "input"
            THEN [san EXCEPT !.phase = "done", !.out = CleanJsonString(san.str)]
            ELSE [san EXCEPT !.phase = "again", !.again = CleanJsonString(san.out)]
  /\ UNCHANGED <<generator, call, net, batch, val, co>>

\* The annotation type:enum[v1,...,vn] of the options, each written between pad.
EnumAnnotation(options, pad) ==
  TypePrefix \o EnumPrefix
    \o Join([i \in 1..Len(options) |-> pad \o options[i] \o pad], <<",">>) \o <<"]">>

\* this._validateType(value, type, key)
Coerce ==
  /\ co.phase = "input"
  /\ co' = [co EXCEPT !.phase = "done", !.out = ValidateType(co.value, co.type, co.key)]
  /\ UNCHANGED <<generator, call, net, batch, val, san>>

\* ------------------------------------------------------------------------
\* Specifications

Init ==
  /\ generator = NoGenerator
  /\ call = [c \in Calls |-> IdleCall]
  /\ net = [c \in Calls |-> IdleNet]
  /\ batch = NoBatch
  /\ val = IdleVal
  /\ san = [phase |-> "idle"]
  /\ co = [phase |-> "idle"]

\* One generate call on a generator.
Next ==
  \/ \E config \in Configs : Constructor(config)
  \/ \E request \in Requests : Generate(request)
  \/ \E response \in Responses : FetchSettles(1, response)
  \/ BodySettles(1)
  \/ ValidatorSettles(1)

Spec == Init /\ [][Next]_vars

\* The generators generateBatch is called on.
BatchConfigs ==
  {Config(Some("test-key"), Absent(""), Some(k), NoText) : k \in 0..MaxRetriesArg}

\* The arrays generateBatch is given: at most MaxBatch requests, no two
\* neighbours the same.
Batches ==
  {prompts \in UNION {[1..n -> BatchRequests] : n \in 0..MaxBatch} :
     \A i \in 1..(Len(prompts) - 1) : prompts[i] # prompts[i + 1]}

\* One generateBatch call on a generator.
BatchNext ==
  \/ \E config \in BatchConfigs : Constructor(config)
  \/ \E prompts \in Batches : GenerateBatch(prompts)
  \/ \E c \in Calls, response \in BatchResponses : FetchSettles(c, response)
  \/ \E c \in Calls : BodySettles(c)
  \/ \E c \in Calls : ValidatorSettles(c)

BatchSpec == Init /\ [][BatchNext]_vars

\* _validateSchema applied to a parsed value and a schema.
ValidateInit ==
  /\ generator = NoGenerator
  /\ call = [c \in Calls |-> IdleCall]
  /\ net = [c \in Calls |-> IdleNet]
  /\ batch = NoBatch
  /\ val \in {ValInput(data, schema) : data \in FlatData \cup NestedData, schema \in Schemas}
  /\ san = [phase |-> "idle"]
  /\ co = [phase |-> "idle"]

ValidateNext == Validate \/ Revalidate

ValidateSpec == ValidateInit /\ [][ValidateNext]_vars

\* _cleanJsonString applied to a text made of at most MaxParts pieces: fence
\* openers and single backticks, the language tag, white space and JSON.
SanitizeInit ==
  /\ generator = NoGenerator
  /\ call = [c \in Calls |-> IdleCall]
  /\ net = [c \in Calls |-> IdleNet]
  /\ batch = NoBatch
  /\ val = IdleVal
  /\ co = [phase |-> "idle"]
  /\ san \in {[phase |-> "input", str |-> Join(parts, <<>>), out |-> <<>>, again |-> <<>>] :
               parts \in UNION {[1..n -> {Fence, <<Backtick>>, JsonTag, <<" ">>, <<"\n">>,
                                          <<"{", "}">>}] : n \in 0..MaxParts}}

SanitizeSpec == SanitizeInit /\ [][Sanitize]_vars

\* _validateType applied to a value, an annotation and a field name: texts and
\* native values; the ten kinds, in lower and in upper case, enums, an
\* annotation of no known kind and one without "type:".
CoerceInit ==
  /\ generator = NoGenerator
  /\ call = [c \in Calls |-> IdleCall]
  /\ net = [c \in Calls |-> IdleNet]
  /\ batch = NoBatch
  /\ val = IdleVal
  /\ san = [phase |-> "idle"]
  /\ \E value \in {Str(<<"3", "0">>), Str(<<"a", "b", "c">>), Str(<<"3", "0", ".", "7">>),
                   Str(Word.true), Str(<<"F", "a", "l", "s", "e">>),
                   Str(<<"[", "1", ",", "2", "]">>), Str(<<"{", "}">>),
                   Str(<<"r", "e", "d">>), Str(<<"R", "e", "d">>), Str(<<" ", "r", "e", "d">>),
                   Str(<<"b", "l", "u", "e">>), Str(<<"p", "u", "r", "p", "l", "e">>),
                   Num(<<"3", "0">>), Num(<<"3", "0", ".", "7">>), Num(<<"5", "e", "-", "7">>),
                   Num(<<"1", "e", "+", "2", "1">>), Bool(TRUE), Null,
                   Arr(<<Num(<<"1">>), Num(<<"2">>)>>)},
        type \in {Annotation(Word[k]).v : k \in {"string", "str", "number", "float", "integer",
                                               "int", "boolean", "bool", "array", "list"}}
                 \cup {Annotation(<<"I", "N", "T">>).v, Annotation(<<" ", "b", "o", "o", "l", " ">>).v,
                       Annotation(<<"d", "a", "t", "e">>).v, Word.integer}
                 \cup {EnumAnnotation(options, pad) :
                         options \in {<<<<"r", "e", "d">>, <<"g", "r", "e", "e", "n">>,
                                        <<"b", "l", "u", "e">>>>,
                                      <<<<"R", "e", "d">>, <<"3", "0">>>>},
                         pad \in {<<>>, <<" ">>}},
        key \in {Key.age, Key.a} :
       co = [phase |-> "input", value |-> value, type |-> type, key |-> key,
             out |-> Ok(Undefined)]

CoerceSpec == CoerceInit /\ [][Coerce]_vars

\* ------------------------------------------------------------------------
\* Properties of generate (under Spec)

\* The error text a system message carries: none is the empty text.
CarriedText(system) ==
  IF system.previousError.given THEN system.previousError.value ELSE EmptyMessage

\* Call c was made with a schema that has keys.
SchemaBased(c) == call[c].pc # "idle" /\ Len(call[c].request.schema.v) > 0

\* C1: a schema-based generate call that returns after requests to the model
\* has made one request more than it had failed attempts, at most maxRetries
\* in all, none of them still in flight, and returns the validated object of
\* the response to its last request, which every custom validator accepts.
C1_ReturnsAtFirstSuccess ==
  (SchemaBased(1) /\ call[1].pc = "returned" /\ net[1].sent > 0) =>
    /\ net[1].sent = Len(call[1].history) + 1
    /\ net[1].sent <= generator.maxRetries
    /\ net[1].inflight = 0
    /\ ProcessResponse(call[1].response, call[1].request.schema).ok
    /\ call[1].result = ProcessResponse(call[1].response, call[1].request.schema).val
    /\ \A i \in 1..Len(call[1].request.customValidators) :
         ValidatorVerdict(call[1].request.customValidators[i], call[1].result).valid

\* Two attempts failed, the third passed its two custom validators.
C1_Witness ==
  /\ SchemaBased(1) /\ call[1].pc = "returned"
  /\ net[1].sent = 3 /\ Len(call[1].history) = 2
  /\ Len(call[1].request.customValidators) = 2
  /\ call[1].result.t = "object"

\* C2: the system message of the request of attempt n is the system prompt
\* of the call, with no error text for n = 1 and, for n > 1, with the message
\* of the error attempt n - 1 failed with (an empty message adds nothing).
C2_ErrorTextOfPreviousAttempt ==
  (SchemaBased(1) /\ net[1].sent > 0) =>
    /\ net[1].system.prompt = FinalSystemPrompt(call[1].request)
    /\ net[1].sent = 1 => ~net[1].system.previousError.given
    /\ net[1].sent > 1 =>
         /\ net[1].sent - 1 <= Len(call[1].history)
         /\ CarriedText(net[1].system) = call[1].history[net[1].sent - 1].error.message

\* The third request carries the error of the second attempt, which is not
\* the error of the first.
C2_Witness ==
  /\ SchemaBased(1) /\ call[1].pc = "fetch" /\ net[1].sent = 3
  /\ call[1].history[1].error # call[1].history[2].error
  /\ net[1].system.previousError = Some(call[1].history[2].error.message)

\* C3: a schema-based generate call that throws has made exactly maxRetries
\* requests, every one of its maxRetries attempts has failed, and the error
\* thrown is the one its last attempt failed with.
C3_RaisesLastError ==
  (SchemaBased(1) /\ call[1].pc = "thrown") =>
    /\ net[1].sent = generator.maxRetries
    /\ net[1].inflight = 0
    /\ Len(call[1].history) = generator.maxRetries
    /\ call[1].raised = call[1].history[generator.maxRetries].error

\* Three attempts failed, the last with another error than the first two.
C3_Witness ==
  /\ SchemaBased(1) /\ call[1].pc = "thrown" /\ generator.maxRetries = 3
  /\ call[1].history[3].error \notin {call[1].history[1].error, call[1].history[2].error}
  /\ call[1].raised = call[1].history[3].error

\* The steps an attempt fails in that are a provider response without
\* success, a JSON parse failure, a schema validation failure and the
\* rejection by a custom validator.
FourKinds == {"provider", "parse", "validate", "custom"}

\* C4: in a schema-based generate call, a step in which an attempt before
\* the last fails (by a provider response without success, a parse failure,
\* a schema validation failure, a custom validator's rejection, or otherwise)
\* sends the request of the next attempt and throws nothing; a step that
\* throws to the caller is a failure of attempt maxRetries.
C4_FailuresBeforeLastAreRetried ==
  [][SchemaBased(1) =>
       /\ (/\ Len(call[1].history') = Len(call[1].history) + 1
           /\ call[1].attempt < generator.maxRetries - 1)
            => /\ call[1].pc' = "fetch"
               /\ call[1].attempt' = call[1].attempt + 1
               /\ net[1].sent' = net[1].sent + 1
               /\ call[1].raised' = NoError
       /\ (call[1].pc # "thrown" /\ call[1].pc' = "thrown")
            => /\ call[1].attempt = generator.maxRetries - 1
               /\ Len(call[1].history') = generator.maxRetries]_vars

\* The first attempt failed schema validation, the second was rejected by a
\* custom validator, and the third is under way.
C4_Witness ==
  /\ SchemaBased(1) /\ call[1].pc = "fetch" /\ call[1].attempt = 2
  /\ call[1].history[1].step = "validate" /\ call[1].history[2].step = "custom"
  /\ call[1].raised = NoError

\* C5: a generate call without schema keys that has settled has made exactly
\* one request, and if it has thrown, the error is a provider error or a
\* JSON parse error.
C5_SchemaLessSingleCall ==
  (call[1].pc \in {"returned", "thrown"} /\ Len(call[1].request.schema.v) = 0) =>
    /\ net[1].sent = 1
    /\ call[1].pc = "thrown" =>
         call[1].raised.message.fmt \in {"OpenRouter API error: %", "% is not valid JSON"}

\* ------------------------------------------------------------------------
\* Properties of generateBatch (under BatchSpec)

\* C6: the promise of generateBatch is resolved only when every member call
\* has returned, with an array of the length of the input; it is rejected as
\* soon as a member has thrown, with the error of a member.
C6_BatchAllOrNothing ==
  /\ batch.state = "resolved" =>
       /\ Len(batch.values) = batch.n
       /\ \A c \in 1..batch.n : call[c].pc = "returned"
  /\ batch.state = "rejected" =>
       \E c \in 1..batch.n : call[c].pc = "thrown" /\ batch.error = call[c].raised
  /\ (batch.state # "none" /\ \E c \in 1..batch.n : call[c].pc = "thrown") =>
       batch.state = "rejected" /\ batch.values = <<>>

\* One member has returned an object, the other has thrown: rejected.
C6_Witness ==
  /\ batch.state = "rejected" /\ batch.n = 2
  /\ \E c, d \in 1..2 :
       /\ call[c].pc = "thrown" /\ batch.error = call[c].raised
       /\ call[d].pc = "returned" /\ call[d].result.t = "object"

\* C7: the array generateBatch resolves with has the length of the input,
\* and its element i is the value call i returned, whatever the order the
\* calls settled in.
C7_BatchKeepsInputOrder ==
  batch.state = "resolved" =>
    /\ Len(batch.values) = batch.n
    /\ \A i \in 1..batch.n : call[i].pc = "returned" /\ batch.values[i] = call[i].result

\* The second call returned before the first, with another object.
C7_Witness ==
  /\ batch.state = "resolved" /\ batch.order = <<2, 1>>
  /\ batch.values[1].t = "object" /\ batch.values[2].t = "object"
  /\ batch.values[1] # batch.values[2]

\* C8: under every interleaving of the calls of a batch, the attempt counter
\* of a call counts its own failed attempts, its lastError is the message of
\* its own last failure (null before the first), and the error text of its
\* system message is that of its own previous attempt (none on attempt 1).
C8_RetryStateIsPerCall ==
  \A c \in Calls :
    /\ call[c].lastError =
         IF call[c].history = <<>> THEN NullError
         ELSE ErrorText(call[c].history[Len(call[c].history)].error.message)
    /\ call[c].attempt =
         IF call[c].pc = "thrown" /\ call[c].history # <<>>
         THEN Len(call[c].history) - 1 ELSE Len(call[c].history)
    /\ net[c].sent = 1 => ~net[c].system.previousError.given
    /\ net[c].sent > 1 =>
         /\ net[c].sent - 1 <= Len(call[c].history)
         /\ CarriedText(net[c].system) = call[c].history[net[c].sent - 1].error.message

\* Both calls are on their second attempt, after different errors.
C8_Witness ==
  /\ call[1].pc = "fetch" /\ call[2].pc = "fetch"
  /\ call[1].attempt = 1 /\ call[2].attempt = 1
  /\ call[1].lastError # call[2].lastError
  /\ net[1].system.previousError # net[2].system.previousError

\* ------------------------------------------------------------------------
\* Properties of _validateSchema (under ValidateSpec)

IsPlainObject(value) == value.t = "object"

\* The keys of a plain object, in order.
KeysOf(object) == [i \in 1..Len(object.v) |-> object.v[i][1]]

\* value has, at every level of schema, exactly the keys schema declares.
RECURSIVE KeysAsDeclared(_, _)
KeysAsDeclared(value, schema) ==
  IF schema.t = "array"
  THEN /\ value.t = "array"
       /\ schema.v # <<>> => \A i \in 1..Len(value.v) : KeysAsDeclared(value.v[i], schema.v[1])
  ELSE IF IsPlainObject(schema)
  THEN /\ IsPlainObject(value)
       /\ KeysOf(value) = KeysOf(schema)
       /\ \A i \in 1..Len(schema.v) : KeysAsDeclared(value.v[i][2], schema.v[i][2])
  ELSE TRUE

\* The keys schema declares that data, a plain object, does not have.
MissingKeys(data, schema) ==
  {schema.v[i][1] : i \in 1..Len(schema.v)} \ {data.v[i][1] : i \in 1..Len(data.v)}

\* C9: _validateSchema of a plain object against an object schema returns,
\* if it returns, an object with exactly the declared keys at every level
\* (no undeclared key of the data among them); and if the data lacks a
\* declared key it throws, and a "Missing required field" error for a key of
\* the top level names a key the data lacks.
C9_ObjectKeysExactlyDeclared ==
  (val.phase = "done" /\ IsPlainObject(val.schema) /\ IsPlainObject(val.data)) =>
    /\ val.out.ok => KeysAsDeclared(val.out.val, val.schema)
    /\ MissingKeys(val.data, val.schema) # {} => ~val.out.ok
    /\ (/\ ~val.out.ok
        /\ val.out.err.message.fmt = "Missing required field: %"
        /\ val.out.err.message.args[1] \in {val.schema.v[i][1] : i \in 1..Len(val.schema.v)})
         => val.out.err.message.args[1] \in MissingKeys(val.data, val.schema)

\* The messages _validateType throws with.
CoercionFailures ==
  {"Field \"%\" must be a number", "Field \"%\" must be an integer",
   "Field \"%\" must be a boolean", "Field \"%\" must be an array",
   "Field \"%\" must be one of: %"}

\* The keys schema declares, at every level.
RECURSIVE DeclaredKeys(_)
DeclaredKeys(schema) ==
  IF schema.t = "array" THEN UNION {DeclaredKeys(schema.v[i]) : i \in 1..Len(schema.v)}
  ELSE IF IsPlainObject(schema)
  THEN {schema.v[i][1] : i \in 1..Len(schema.v)}
         \cup UNION {DeclaredKeys(schema.v[i][2]) : i \in 1..Len(schema.v)}
  ELSE {}

\* C10: the error _validateSchema throws when a leaf cannot be coerced names
\* a key the schema declares.
C10_CoercionErrorNamesField ==
  (val.phase = "done" /\ ~val.out.ok /\ val.out.err.message.fmt \in CoercionFailures) =>
    val.out.err.message.args[1] \in DeclaredKeys(val.schema)

\* C11: when _validateSchema has returned r for a data and a schema,
\* _validateSchema of r against the same schema returns too, and returns a
\* value equal to r.
C11_ValidateIdempotent ==
  val.phase = "again" => (val.again.ok /\ val.again.val = val.out.val)

C16_ConstructorRequiresKeyAndDefaults ==
  /\ [][\A config \in Configs :
          Constructor(config) =>
            /\ (~config.apiKey.given \/ config.apiKey.value = "") =>
                 /\ generator'.state = "threw"
                 /\ generator'.error = Error("Error", "OpenRouter API key is required", <<>>)
            /\ config = Config(Some("test-key"), Absent(""), Absent(0), NoText) =>
                 /\ generator'.state = "built"
                 /\ generator'.apiKey = "test-key"
                 /\ generator'.model = "mistralai/mistral-nemo"
                 /\ generator'.delimiter = <<"#", "#", "#">>
                 /\ generator'.maxRetries = 3]_vars
  /\ [](generator.state = "threw" =>
          (generator.apiKey = "" /\ call[1].pc = "idle" /\ net[1].sent = 0))
  /\ [](generator.state = "built" => generator.apiKey # "")

\* The constructor has thrown.
C16_Witness == generator.state = "threw" /\ generator.error.message.fmt = "OpenRouter API key is required"

\* C17: a generate call has no request or one request in flight, and one
\* exactly while it awaits fetch; a request is sent when the call starts, and
\* after that only in the step in which the attempt before it was caught
\* with an error: its fetch had settled, and its reading, parsing, validation
\* or custom validator had thrown.
C17_OneRequestInFlight ==
  /\ [](/\ net[1].inflight \in {0, 1}
        /\ net[1].inflight = 1 <=> call[1].pc = "fetch")
  /\ [][net'[1].sent # net[1].sent =>
          /\ net'[1].sent = net[1].sent + 1
          /\ net[1].inflight = IF call[1].pc = "fetch" THEN 1 ELSE 0
          /\ net'[1].inflight = 1
          /\ \/ call[1].pc = "idle" /\ net[1].sent = 0
             \/ /\ call[1].pc \in {"fetch", "body", "validator"}
                /\ call'[1].attempt = call[1].attempt + 1
                /\ Len(call'[1].history) = Len(call[1].history) + 1]_vars

\* The request of a second attempt is in flight, after the first attempt's
\* custom validator failed.
C17_Witness ==
  /\ call[1].pc = "fetch"
  /\ call[1].attempt = 1
  /\ net[1].sent = 2
  /\ net[1].inflight = 1
  /\ call[1].history[1].step = "custom"

\* C18: while a schema-based generate call made without systemPrompt awaits
\* fetch, the system message of the request holds every key of the schema as
\* _wrapFormat writes it, between delimiters, and every annotation between
\* angle brackets, and the user message ends with the field examples
\* name="example_text", age=42.
C18_SystemMessageEmbedsWrappedTemplate ==
  (call[1].pc = "fetch" /\ ~call[1].request.systemPrompt.given) =>
    /\ \A i \in 1..Len(call[1].request.schema.v) :
         With(WrapFormat(call[1].request.schema, 1, generator.delimiter).v[i], LAMBDA wrapped :
           /\ IndexOf(net[1].system.prompt.text, wrapped[1], 1) # 0
           /\ IndexOf(net[1].system.prompt.text, wrapped[2].v, 1) # 0)
    /\ net[1].user.args[2] =
         <<"n", "a", "m", "e", "=", "\"", "e", "x", "a", "m", "p", "l", "e", "_", "t", "e", "x", "t",
           "\"", ",", " ", "a", "g", "e", "=", "4", "2">>

\* C19: an object a schema-based generate call returns is what
\* _validateSchema returned for the response of the attempt the call returns
\* in, an attempt that is none of the failed ones, and every custom validator
\* of the request finds it valid; for the schema { name: 'type:string',
\* age: 'type:integer' } its name is a string and its age a number, whatever
\* the types in the text parsed.
C19_ReturnedObjectIsValidated ==
  (SchemaBased(1) /\ call[1].pc = "returned" /\ call[1].result.t = "object") =>
    /\ Len(call[1].history) = call[1].attempt
    /\ net[1].sent = call[1].attempt + 1
    /\ ~call[1].response.rejects
    /\ With(ProcessResponse(call[1].response, call[1].request.schema), LAMBDA out :
         out.ok /\ out.step = "validate" /\ call[1].result = out.val)
    /\ \A i \in 1..Len(call[1].request.customValidators) :
         ValidatorVerdict(call[1].request.customValidators[i], call[1].result).valid
    /\ call[1].request.schema = PersonSchema =>
         /\ GetProperty(call[1].result, Key.name).t = "string"
         /\ GetProperty(call[1].result, Key.age).t = "number"

\* A second attempt returned { name: 'John', age: 30 } for the answer
\* {"name":"John","age":"30"}, accepted by two custom validators.
C19_Witness ==
  /\ SchemaBased(1) /\ call[1].pc = "returned"
  /\ Len(call[1].history) = 1
  /\ call[1].response = Completion(GoodText)
  /\ call[1].request.customValidators = <<"named", "adult">>
  /\ call[1].result = Obj(<< <<Key.name, Str(John)>>, <<Key.age, Num(<<"3", "0">>)>> >>)

\* C20: a schema-based generate call that has settled, whatever maxRetries
\* the generator was built with, has made at least one request to the model,
\* and has either returned an object or thrown an error.
C20_SettlesWithResultOrError ==
  (SchemaBased(1) /\ call[1].pc \in {"returned", "thrown"}) =>
    /\ net[1].sent >= 1
    /\ call[1].pc = "returned" => (call[1].result.t = "object" /\ call[1].raised = NoError)
    /\ call[1].pc = "thrown" => call[1].raised # NoError

\* ------------------------------------------------------------------------
\* Properties of _cleanJsonString (under SanitizeSpec)

\* C12: _cleanJsonString of a text _cleanJsonString returned is that text.
C12_SanitizeIdempotent == san.phase = "again" => san.again = san.out

\* ------------------------------------------------------------------------
\* Properties of _validateType (under CoerceSpec)

KindIn(type, words) == type \in {Annotation(Word[k]).v : k \in words}
NamesField(out, key) ==
  ~out.ok /\ out.err.message.args # <<>> /\ out.err.message.args[1] = key
\* The integer part of a number.
Truncated(number) ==
  Num(NumberText(DecimalPrefix(number.v).neg, DecimalPrefix(number.v).int, <<>>))

\* C14: _validateType with an annotation of one of the ten kinds returns a
\* value or throws an error that names the key it was given.  "30" as integer
\* gives 30, "true" as boolean gives true and "[1,2]" as array gives [1,2]; the
\* string kinds give the text of the value; a number gives itself as a number
\* and its integer part as an integer; a boolean gives itself as a boolean and
\* an array itself as an array; "abc" as a number or an integer, and what is
\* no boolean and no text of one as a boolean, throws.
C14_CoerceYieldsExpectedOrNamesField ==
  (co.phase = "done"
     /\ KindIn(co.type, {"string", "str", "number", "float", "integer", "int",
                         "boolean", "bool", "array", "list"})) =>
    /\ co.out.ok \/ NamesField(co.out, co.key)
    /\ KindIn(co.type, {"string", "str"}) => co.out = Ok(Str(ToStr(co.value)))
    /\ KindIn(co.type, {"number", "float"}) =>
         /\ co.value.t = "number" => co.out = Ok(co.value)
         /\ co.value = Str(<<"3", "0", ".", "7">>) => co.out = Ok(Num(<<"3", "0", ".", "7">>))
         /\ co.value = Str(<<"a", "b", "c">>) => NamesField(co.out, co.key)
    /\ KindIn(co.type, {"integer", "int"}) =>
         /\ co.value = Str(<<"3", "0">>) => co.out = Ok(Num(<<"3", "0">>))
         /\ co.value.t = "number" => co.out = Ok(Truncated(co.value))
         /\ co.value = Str(<<"a", "b", "c">>) => NamesField(co.out, co.key)
    /\ KindIn(co.type, {"boolean", "bool"}) =>
         /\ co.value = Str(Word.true) => co.out = Ok(Bool(TRUE))
         /\ co.value = Str(<<"F", "a", "l", "s", "e">>) => co.out = Ok(Bool(FALSE))
         /\ co.value.t = "boolean" => co.out = Ok(co.value)
         /\ co.value.t \in {"number", "null", "array"} => NamesField(co.out, co.key)
    /\ KindIn(co.type, {"array", "list"}) =>
         /\ co.value = Str(<<"[", "1", ",", "2", "]">>)
              => co.out = Ok(Arr(<<Num(<<"1">>), Num(<<"2">>)>>))
         /\ co.value.t = "array" => co.out = Ok(co.value)
         /\ co.value \in {Str(<<"a", "b", "c">>), Str(<<"{", "}">>), Null}
              => NamesField(co.out, co.key)

EnumOptions ==
  {<<<<"r", "e", "d">>, <<"g", "r", "e", "e", "n">>, <<"b", "l", "u", "e">>>>,
   <<<<"R", "e", "d">>, <<"3", "0">>>>}

\* C15: _validateType with the annotation type:enum[v1,...,vn], the options
\* written with or without spaces around them, returns the value it was given
\* when that value is a string equal to one of v1..vn, and otherwise throws an
\* error whose message names the key and lists v1..vn, joined by ", ".
C15_EnumAcceptsExactlyOptions ==
  \A options \in EnumOptions, pad \in {<<>>, <<" ">>} :
    (co.phase = "done" /\ co.type = EnumAnnotation(options, pad)) =>
      IF co.value.t = "string" /\ \E i \in 1..Len(options) : options[i] = co.value.v
      THEN co.out = Ok(co.value)
      ELSE /\ NamesField(co.out, co.key)
           /\ co.out.err.message.fmt = "Field \"%\" must be one of: %"
           /\ co.out.err.message.args[2] = Join(options, <<",", " ">>)

\* "Red" was rejected for enum[ red , green , blue ].
C15_Witness ==
  /\ co.phase = "done"
  /\ co.type = EnumAnnotation(<<<<"r", "e", "d">>, <<"g", "r", "e", "e", "n">>,
                                <<"b", "l", "u", "e">>>>, <<" ">>)
  /\ co.value = Str(<<"R", "e", "d">>)
  /\ ~co.out.ok

====
